---- MODULE Spec2Model ----
(***************************************************************************)
(* A model of src/main.py, the spendlens-ui Flask application: the five    *)
(* request handlers (/, /admin, /record_transformer, /update_categories,   *)
(* /delete_records), the two reporting functions they call and the data    *)
(* store (processed_records, unprocessed_records, connections) they use.   *)
(*                                                                         *)
(* Conventions                                                             *)
(*   - an optional value (Python None / SQL NULL) is a sequence of length  *)
(*     at most one: << >> is None/NULL, <<v>> is the value v;              *)
(*   - a raw request string that the code parses character by character    *)
(*     (page numbers, record_ids) is a sequence of one-character strings;  *)
(*   - a table is a bag of rows (SQL tables are unordered multisets);      *)
(*   - amounts are integers (cents).                                       *)
(***************************************************************************)
EXTENDS Integers, Sequences, FiniteSets, Bags, TLC

VARIABLES
    processed,      \* bag of rows of processed_records
    unprocessed,    \* bag of rows of unprocessed_records
    today,          \* the store's CURRENT_DATE
    openConns,      \* connections opened by get_db_connection and not closed
    req,            \* the request being answered (endpoint and raw parameters)
    resp            \* the response returned for req

vars == <<processed, unprocessed, today, openConns, req, resp>>

----------------------------------------------------------------------------
(* Bounds of the model *)

\* rows in a table of an initial state
MaxRows == 2
\* characters in a raw page / per_page parameter
MaxArgLen == 3
\* characters in a raw record_ids parameter
MaxIdsLen == 4
\* connections the store accepts at once (its max_connections setting)
MaxConnections == 2

----------------------------------------------------------------------------
(* Optional values and small helpers *)

None == << >>
Some(v) == <<v>>
IsNone(o) == o = << >>
Val(o) == o[1]

Range(s) == {s[i] : i \in 1..Len(s)}

SeqsUpTo(S, n) == UNION {[1..k -> S] : k \in 0..n}

RECURSIVE SumSeq(_)
SumSeq(s) == IF s = << >> THEN 0 ELSE Head(s) + SumSeq(Tail(s))

\* bags over the rows of S with at most n rows
RECURSIVE BagsUpTo(_, _)
BagsUpTo(S, n) ==
    IF n = 0 THEN {EmptyBag}
    ELSE LET smaller == BagsUpTo(S, n - 1)
         IN  smaller \cup {b (+) SetToBag({r}) : b \in smaller, r \in S}

\* the rows of bag b that are in the set S (a WHERE clause selects S)
Where(b, S) == [r \in (DOMAIN b) \cap S |-> b[r]]

\* SUM(amount) over the rows of bag b
RECURSIVE SumOver(_, _)
SumOver(b, S) ==
    IF S = {} THEN 0
    ELSE LET r == CHOOSE x \in S : TRUE
         IN  b[r] * r.amount + SumOver(b, S \ {r})

SumAmount(b) == SumOver(b, DOMAIN b)

\* COUNT(*) of bag b
CountBag(b) == BagCardinality(b)

----------------------------------------------------------------------------
(* Request parameters: request.args.get(key, default, type=int) *)

Digits == <<"0", "1", "2", "3", "4", "5", "6", "7", "8", "9">>
DigitVal(c) == (CHOOSE i \in 1..10 : Digits[i] = c) - 1
IsDigit(c) == c \in Range(Digits)

\* the characters raw page / per_page parameters are drawn from
ArgChars == {"0", "1", "-", "x"}
RawArgs == SeqsUpTo(ArgChars, MaxArgLen)

\* int(s) succeeds: an optional sign followed by one or more digits
IsIntLiteral(s) ==
    LET body == IF s # << >> /\ Head(s) = "-" THEN Tail(s) ELSE s
    IN  /\ body # << >>
        /\ \A i \in 1..Len(body) : IsDigit(body[i])

RECURSIVE DigitsValue(_)
DigitsValue(s) ==
    IF s = << >> THEN 0
    ELSE 10 * DigitsValue(SubSeq(s, 1, Len(s) - 1)) + DigitVal(s[Len(s)])

\* int(s) for a literal s; Python integers do not overflow
IntOf(s) == IF Head(s) = "-" THEN 0 - DigitsValue(Tail(s)) ELSE DigitsValue(s)

\* request.args.get(key, default, type=int): the default when the key is
\* missing or when int() raises ValueError
ArgInt(raw, default) ==
    IF IsNone(raw) THEN default
    ELSE IF IsIntLiteral(Val(raw)) THEN IntOf(Val(raw))
    ELSE default

\* request.args.get(key, default): the default only when the key is missing
ArgStr(raw, default) == IF IsNone(raw) THEN default ELSE Val(raw)

----------------------------------------------------------------------------
(* Pagination arithmetic *)

DefaultPage == 1
DefaultPerPage == 10
MaxPerPage == 100

\* if page < 1: page = 1
NormalizePage(page) == IF page < 1 THEN 1 ELSE page

\* NormalizePerPage without the upper limit
NormalizePerPageNoCeiling(per_page) ==
    IF per_page < 1 THEN DefaultPerPage ELSE per_page

\* if per_page < 1 or per_page > 100: per_page = 10
NormalizePerPage(per_page) ==
    IF per_page < 1 \/ per_page > MaxPerPage THEN DefaultPerPage ELSE per_page

\* offset = (page - 1) * per_page
Offset(page, per_page) == (page - 1) * per_page

\* TotalPages rounding down
TotalPagesRoundedDown(total_count, per_page) == total_count \div per_page

\* total_pages = (total_count + per_page - 1) // per_page
TotalPages(total_count, per_page) == (total_count + per_page - 1) \div per_page

\* lst[offset:offset + per_page] on a Python list
Slice(lst, offset, per_page) ==
    LET lo == IF offset > Len(lst) THEN Len(lst) ELSE offset
        hi == IF offset + per_page > Len(lst) THEN Len(lst) ELSE offset + per_page
    IN  SubSeq(lst, lo + 1, hi)

----------------------------------------------------------------------------
(* Calendar: the store's EXTRACT(YEAR|MONTH|WEEK FROM d) on a date          *)
(* d = [y, m, d] of the proleptic Gregorian calendar                        *)

MkDate(y, m, d) == [y |-> y, m |-> m, d |-> d]

IsLeap(y) == (y % 4 = 0 /\ y % 100 # 0) \/ y % 400 = 0

MonthStart == <<0, 31, 59, 90, 120, 151, 181, 212, 243, 273, 304, 334>>

DayOfYear(dt) ==
    MonthStart[dt.m] + dt.d + (IF dt.m > 2 /\ IsLeap(dt.y) THEN 1 ELSE 0)

\* days from 0001-01-01 (day 1, a Monday) to dt
Ordinal(dt) ==
    LET p == dt.y - 1
    IN  365 * p + (p \div 4) - (p \div 100) + (p \div 400) + DayOfYear(dt)

\* ISO weekday: Monday = 1 .. Sunday = 7
Weekday(dt) == ((Ordinal(dt) - 1) % 7) + 1

\* number of ISO weeks of year y: 53 when Jan 1 is a Thursday, or a
\* Wednesday in a leap year
WeeksInYear(y) ==
    LET w == Weekday(MkDate(y, 1, 1))
    IN  IF w = 4 \/ (w = 3 /\ IsLeap(y)) THEN 53 ELSE 52

ExtractYear(dt) == dt.y
ExtractMonth(dt) == dt.m

\* EXTRACT(WEEK FROM dt): the ISO 8601 week number
ExtractWeek(dt) ==
    LET w == (DayOfYear(dt) - Weekday(dt) + 10) \div 7
    IN  IF w < 1 THEN WeeksInYear(dt.y - 1)
        ELSE IF w > WeeksInYear(dt.y) THEN 1
        ELSE w

\* d1 <= d2
DateLeq(d1, d2) == Ordinal(d1) <= Ordinal(d2)

----------------------------------------------------------------------------
(* The data store *)

\* a row of processed_records; category is nullable
ProcessedRow(id, date, description, amount, category) ==
    [record_id_bank |-> id, transaction_date |-> date,
     description |-> description, amount |-> amount, category |-> category]

\* a row of unprocessed_records
UnprocessedRow(id, rid, date, amount) ==
    [id |-> id, record_id_bank |-> rid, transaction_date |-> date, amount |-> amount]

\* a raw date parameter: its text is empty, not a date, or an ISO date
RawDate(text, date) == [text |-> text, date |-> date]
IsoDate(date) == RawDate("iso", date)

\* the store casts a bound text parameter to a date, and raises when it
\* is not one
IsDateText(raw) == raw.text = "iso"

\* the outcome of one use of the store by a handler: where (if anywhere) a
\* data-access error is raised
Failures == {"none", "connect", "query", "commit"}

\* get_db_connection: psycopg2.connect raises when the store has no
\* connection slot left
ConnectFails(fail, open) == fail = "connect" \/ open >= MaxConnections

----------------------------------------------------------------------------
(* get_spending_data *)

\* Python truthiness of an optional text parameter
Truthy(o) == ~IsNone(o) /\ Val(o) # ""
TruthyDate(o) == ~IsNone(o) /\ Val(o).text # ""

\* DateFilter with time_period tested before the custom range
DateFilterPeriodFirst(time_period, start_date, end_date) ==
    IF time_period = "day" THEN [kind |-> "day", params |-> << >>]
    ELSE IF time_period = "week" THEN [kind |-> "week", params |-> << >>]
    ELSE IF time_period = "month" THEN [kind |-> "month", params |-> << >>]
    ELSE IF time_period = "year" THEN [kind |-> "year", params |-> << >>]
    ELSE IF TruthyDate(start_date) /\ TruthyDate(end_date)
    THEN [kind |-> "range", params |-> <<Val(start_date), Val(end_date)>>]
    ELSE [kind |-> "all", params |-> << >>]

\* the date filter: a custom range has priority over time_period
DateFilter(time_period, start_date, end_date) ==
    IF TruthyDate(start_date) /\ TruthyDate(end_date)
    THEN [kind |-> "range", params |-> <<Val(start_date), Val(end_date)>>]
    ELSE IF time_period = "day" THEN [kind |-> "day", params |-> << >>]
    ELSE IF time_period = "week" THEN [kind |-> "week", params |-> << >>]
    ELSE IF time_period = "month" THEN [kind |-> "month", params |-> << >>]
    ELSE IF time_period = "year" THEN [kind |-> "year", params |-> << >>]
    ELSE [kind |-> "all", params |-> << >>]

\* the store cannot evaluate the date filter: a bound parameter is no date
DateFilterRaises(f) ==
    f.kind = "range" /\ \E i \in 1..2 : ~IsDateText(f.params[i])

\* the date filter evaluated by the store on row r, CURRENT_DATE being now
DateFilterHolds(f, r, now) ==
    LET t == r.transaction_date
    IN  CASE f.kind = "range" ->
                /\ DateLeq(f.params[1].date, t)
                /\ DateLeq(t, f.params[2].date)
          [] f.kind = "day" -> t = now
          [] f.kind = "week" ->
                /\ ExtractYear(t) = ExtractYear(now)
                /\ ExtractWeek(t) = ExtractWeek(now)
          [] f.kind = "month" ->
                /\ ExtractYear(t) = ExtractYear(now)
                /\ ExtractMonth(t) = ExtractMonth(now)
          [] f.kind = "year" -> ExtractYear(t) = ExtractYear(now)
          [] OTHER -> TRUE

\* CategoryEquals comparing the coalesced label
CategoryEqualsCoalesced(r, category_filter) ==
    (IF IsNone(r.category) THEN "Uncategorized" ELSE Val(r.category)) = category_filter

\* "category = %s": never true of a NULL category
CategoryEquals(r, category_filter) == r.category = Some(category_filter)

\* the WHERE clause of the spending query
SpendingWhere(f, category_filter, r, now) ==
    /\ DateFilterHolds(f, r, now)
    /\ Truthy(category_filter) => CategoryEquals(r, Val(category_filter))

\* COALESCE(category, 'Uncategorized')
Coalesce(category) == IF IsNone(category) THEN "Uncategorized" ELSE Val(category)

\* GROUP BY category: the name is both an input column and an output
\* column of the query, and the store resolves it to the input column, so
\* the group key is the raw (nullable) category
GroupKey(r) == r.category

\* the rows the spending query returns, one per group, keyed by group key
SpendingGroups(rows) ==
    LET keys == {GroupKey(r) : r \in DOMAIN rows}
        InGroup(k) == Where(rows, {r \in DOMAIN rows : GroupKey(r) = k})
    IN  [k \in keys |->
            [category |-> Coalesce(k),
             amount |-> SumAmount(InGroup(k))]]

\* ORDER BY total_amount DESC: every order of the groups with the totals
\* non-increasing (the store is free to order equal totals either way)
OrderedByAmountDesc(groups) ==
    LET K == DOMAIN groups
        n == Cardinality(K)
        perms == {p \in [1..n -> K] :
                    /\ \A i, j \in 1..n : i # j => p[i] # p[j]
                    /\ \A i \in 1..n - 1 :
                          groups[p[i]].amount >= groups[p[i + 1]].amount}
    IN  {[i \in 1..n |-> groups[p[i]]] : p \in perms}

\* the results get_spending_data may return: (items, total), the
\* connections it opened and closed, whether a data-access error occurred
\* (error) and whether an exception leaves the function (raised: never, the
\* except clause catches every Exception)
GetSpendingData(rows, now, time_period, category_filter, start_date, end_date, fail, open) ==
    LET f == DateFilter(time_period, start_date, end_date)
        selected == Where(rows, {r \in DOMAIN rows :
                                    SpendingWhere(f, category_filter, r, now)})
    IN  IF ConnectFails(fail, open)
        THEN {[items |-> << >>, total |-> 0, opened |-> 0, closed |-> 0, error |-> TRUE,
          raised |-> FALSE]}
        ELSE IF fail = "query" \/ DateFilterRaises(f)
        THEN {[items |-> << >>, total |-> 0, opened |-> 1, closed |-> 0, error |-> TRUE,
          raised |-> FALSE]}
        ELSE {[items |-> items,
               total |-> SumSeq([i \in 1..Len(items) |-> items[i].amount]),
               opened |-> 1, closed |-> 1, error |-> FALSE,
          raised |-> FALSE] :
                 items \in OrderedByAmountDesc(SpendingGroups(selected))}

----------------------------------------------------------------------------
(* get_monthly_yearly_balances *)

MonthNames == <<"January", "February", "March", "April", "May", "June", "July",
                "August", "September", "October", "November", "December">>

\* CASE WHEN SUM(amount) > 0 ... END
BalanceStatus(amount) ==
    IF amount > 0 THEN "positive" ELSE IF amount < 0 THEN "negative" ELSE "zero"

\* ORDER BY ... DESC: the domain of key as a sequence in descending order
\* of the (distinct) keys
RECURSIVE SortDescOf(_, _)
SortDescOf(key, S) ==
    IF S = {} THEN << >>
    ELSE LET top == CHOOSE x \in S : \A y \in S : key[y] <= key[x]
         IN  <<top>> \o SortDescOf(key, S \ {top})

SortDesc(key) == SortDescOf(key, DOMAIN key)

\* GROUP BY year, month ORDER BY year DESC, month DESC, then formatted
MonthlyBalances(rows) ==
    LET months == {<<ExtractYear(r.transaction_date), ExtractMonth(r.transaction_date)>> :
                      r \in DOMAIN rows}
        InMonth(k) == Where(rows, {r \in DOMAIN rows :
                          /\ ExtractYear(r.transaction_date) = k[1]
                          /\ ExtractMonth(r.transaction_date) = k[2]})
        Total(k) == SumAmount(InMonth(k))
        order == SortDesc([k \in months |-> 12 * k[1] + k[2]])
    IN  [i \in 1..Len(order) |->
            [year |-> order[i][1], month |-> order[i][2],
             month_name |-> IF 1 <= order[i][2] /\ order[i][2] <= 12
                            THEN MonthNames[order[i][2]] ELSE "Unknown",
             amount |-> Total(order[i]),
             status |-> BalanceStatus(Total(order[i]))]]

\* GROUP BY year ORDER BY year DESC, then formatted
YearlyBalances(rows) ==
    LET years == {ExtractYear(r.transaction_date) : r \in DOMAIN rows}
        InYear(y) == Where(rows, {r \in DOMAIN rows : ExtractYear(r.transaction_date) = y})
        Total(y) == SumAmount(InYear(y))
        order == SortDesc([y \in years |-> y])
    IN  [i \in 1..Len(order) |->
            [year |-> order[i], amount |-> Total(order[i]),
             status |-> BalanceStatus(Total(order[i]))]]

\* GetMonthlyYearlyBalances without its except clause
GetMonthlyYearlyBalancesPropagating(rows, fail, open) ==
    IF ConnectFails(fail, open)
    THEN [monthly |-> << >>, yearly |-> << >>, opened |-> 0, closed |-> 0, error |-> TRUE,
          raised |-> TRUE]
    ELSE IF fail = "query"
    THEN [monthly |-> << >>, yearly |-> << >>, opened |-> 1, closed |-> 0, error |-> TRUE,
          raised |-> TRUE]
    ELSE [monthly |-> MonthlyBalances(rows), yearly |-> YearlyBalances(rows),
          opened |-> 1, closed |-> 1, error |-> FALSE, raised |-> FALSE]

\* the result of get_monthly_yearly_balances, with the same bookkeeping as
\* GetSpendingData
GetMonthlyYearlyBalances(rows, fail, open) ==
    IF ConnectFails(fail, open)
    THEN [monthly |-> << >>, yearly |-> << >>, opened |-> 0, closed |-> 0, error |-> TRUE,
          raised |-> FALSE]
    ELSE IF fail = "query"
    THEN [monthly |-> << >>, yearly |-> << >>, opened |-> 1, closed |-> 0, error |-> TRUE,
          raised |-> FALSE]
    ELSE [monthly |-> MonthlyBalances(rows), yearly |-> YearlyBalances(rows),
          opened |-> 1, closed |-> 1, error |-> FALSE,
          raised |-> FALSE]

----------------------------------------------------------------------------
(* record_transformer: sorting and filtering *)

valid_sort_fields ==
    <<"record_id_bank", "transaction_date", "currency_date", "account",
      "description", "amount", "currency", "category">>

\* ValidateSortBy without the check
ValidateSortByUnchecked(sort_by) == sort_by

\* if sort_by not in valid_sort_fields: sort_by = 'transaction_date'
ValidateSortBy(sort_by) ==
    IF sort_by \notin Range(valid_sort_fields) THEN "transaction_date" ELSE sort_by

\* if sort_order not in ['asc', 'desc']: sort_order = 'desc'
ValidateSortOrder(sort_order) ==
    IF sort_order \notin {"asc", "desc"} THEN "desc" ELSE sort_order

\* Python truthiness of an optional parameter held as a character sequence
TruthySeq(o) == ~IsNone(o) /\ Val(o) # << >>

\* the store's case folding, on the letters descriptions are made of
Lower(c) == IF c = "A" THEN "a" ELSE IF c = "B" THEN "b" ELSE c

\* text ILIKE pat: % matches any run of characters, _ any one character
RECURSIVE ILike(_, _)
ILike(text, pat) ==
    IF pat = << >> THEN text = << >>
    ELSE IF Head(pat) = "%"
         THEN ILike(text, Tail(pat)) \/ (text # << >> /\ ILike(Tail(text), pat))
    ELSE IF Head(pat) = "_"
         THEN text # << >> /\ ILike(Tail(text), Tail(pat))
    ELSE /\ text # << >>
         /\ Lower(Head(text)) = Lower(Head(pat))
         /\ ILike(Tail(text), Tail(pat))

\* where_clauses and their bound parameters, in the order they are appended
WhereClauses(category_filter, search_description) ==
    (IF Truthy(category_filter) THEN <<"category = %s">> ELSE << >>)
    \o (IF TruthySeq(search_description) THEN <<"description ILIKE %s">> ELSE << >>)

\* " AND ".join(where_clauses), as the pieces of the query text
JoinAnd(clauses) ==
    [i \in 1..(2 * Len(clauses) - 1) |->
        IF i % 2 = 1 THEN clauses[(i + 1) \div 2] ELSE "AND"]

\* the text of the row query, as the sequence of its pieces
BaseQuery(category_filter, search_description, sort_by, sort_order) ==
    LET clauses == WhereClauses(category_filter, search_description)
    IN  <<"SELECT record_id_bank, transaction_date, currency_date, account, description, amount, currency, category FROM processed_records">>
        \o (IF clauses # << >> THEN <<"WHERE">> \o JoinAnd(clauses) ELSE << >>)
        \o <<"ORDER BY", sort_by, sort_order, "LIMIT %s OFFSET %s">>

\* the text of the count query
CountQuery(category_filter, search_description) ==
    LET clauses == WhereClauses(category_filter, search_description)
    IN  <<"SELECT COUNT(*) FROM processed_records">>
        \o (IF clauses # << >> THEN <<"WHERE">> \o JoinAnd(clauses) ELSE << >>)

\* the filter predicates evaluated by the store on row r
TransformerWhere(category_filter, search_description, r) ==
    /\ Truthy(category_filter) => CategoryEquals(r, Val(category_filter))
    /\ TruthySeq(search_description) =>
          ILike(r.description, <<"%">> \o Val(search_description) \o <<"%">>)

\* SELECT DISTINCT category ... WHERE category IS NOT NULL (as a set: the
\* collation order of the labels is the store's)
DistinctCategories(rows) ==
    {Val(r.category) : r \in {x \in DOMAIN rows : ~IsNone(x.category)}}

----------------------------------------------------------------------------
(* update_categories / delete_records: parsing of record_ids *)

IsSpace(c) == c = " "

\* str.split(','): the pieces between the commas, empty pieces included
RECURSIVE SplitComma(_)
SplitComma(s) ==
    IF \A i \in 1..Len(s) : s[i] # "," THEN <<s>>
    ELSE LET k == CHOOSE i \in 1..Len(s) :
                      s[i] = "," /\ \A j \in 1..(i - 1) : s[j] # ","
         IN  <<SubSeq(s, 1, k - 1)>> \o SplitComma(SubSeq(s, k + 1, Len(s)))

\* str.strip(): leading and trailing whitespace removed
RECURSIVE Strip(_)
Strip(s) ==
    IF s = << >> THEN s
    ELSE IF IsSpace(Head(s)) THEN Strip(Tail(s))
    ELSE IF IsSpace(s[Len(s)]) THEN Strip(SubSeq(s, 1, Len(s) - 1))
    ELSE s

\* [x for x in seq if x] after stripping each piece
RECURSIVE DropEmpty(_)
DropEmpty(pieces) ==
    IF pieces = << >> THEN << >>
    ELSE IF Head(pieces) = << >> THEN DropEmpty(Tail(pieces))
    ELSE <<Head(pieces)>> \o DropEmpty(Tail(pieces))

\* ParseRecordIds keeping the pieces untrimmed
ParseRecordIdsUntrimmed(record_ids_str) ==
    LET pieces == SplitComma(record_ids_str)
    IN  DropEmpty([i \in 1..Len(pieces) |->
                     IF Strip(pieces[i]) = << >> THEN << >> ELSE pieces[i]])

\* ParseRecordIds keeping the empty pieces
ParseRecordIdsKeepEmpty(record_ids_str) ==
    LET pieces == SplitComma(record_ids_str)
    IN  [i \in 1..Len(pieces) |-> Strip(pieces[i])]

\* [id.strip() for id in record_ids_str.split(',') if id.strip()]
ParseRecordIds(record_ids_str) ==
    LET pieces == SplitComma(record_ids_str)
    IN  DropEmpty([i \in 1..Len(pieces) |-> Strip(pieces[i])])

\* record_id_bank = ANY(%s)
IdMatches(r, record_ids) == r.record_id_bank \in Range(record_ids)

\* UpdateCategory without its WHERE clause
UpdateCategoryEveryRow(rows, new_category, record_ids) ==
    LET Updated(r) == [r EXCEPT !.category = Some(new_category)]
        Sources(t) == {r \in DOMAIN rows : Updated(r) = t}
    IN  [t \in {Updated(r) : r \in DOMAIN rows} |->
            CountBag(Where(rows, Sources(t)))]

\* UPDATE processed_records SET category = %s WHERE record_id_bank = ANY(%s)
UpdateCategory(rows, new_category, record_ids) ==
    LET Updated(r) == IF IdMatches(r, record_ids)
                      THEN [r EXCEPT !.category = Some(new_category)]
                      ELSE r
        Sources(t) == {r \in DOMAIN rows : Updated(r) = t}
    IN  [t \in {Updated(r) : r \in DOMAIN rows} |->
            CountBag(Where(rows, Sources(t)))]

\* DELETE FROM processed_records WHERE record_id_bank = ANY(%s)
DeleteRows(rows, record_ids) ==
    Where(rows, {r \in DOMAIN rows : ~IdMatches(r, record_ids)})

----------------------------------------------------------------------------
(* The request handlers.  Each takes the sets its raw parameters and the   *)
(* store's failures are drawn from; a handler runs from the arrival of a   *)
(* request to the return of its response.                                  *)

NoRequest == [endpoint |-> "none"]
NoResponse == [status |-> 0]

Idle == req = NoRequest

\* @app.route('/'); index has no try/except of its own, so an exception
\* leaving one of the two functions would be answered with a 500
index(TimePeriods, Categories, StartDates, EndDates, MonthlyPages, YearlyPages, PerPages, SpendingFailures, BalanceFailures) ==
    /\ Idle
    /\ \E tp \in TimePeriods, cf \in Categories, sd \in StartDates, ed \in EndDates,
          mp \in MonthlyPages, yp \in YearlyPages, pp \in PerPages,
          fs \in SpendingFailures, fb \in BalanceFailures :
          LET time_period == ArgStr(tp, "month")
          IN  \E sp \in GetSpendingData(processed, today, time_period, cf, sd, ed,
                                        fs, openConns) :
                LET afterSpending == openConns + sp.opened - sp.closed
                    bal == GetMonthlyYearlyBalances(processed, fb, afterSpending)
                    monthly_page == NormalizePage(ArgInt(mp, DefaultPage))
                    yearly_page == NormalizePage(ArgInt(yp, DefaultPage))
                    per_page == NormalizePerPage(ArgInt(pp, DefaultPerPage))
                    monthly_offset == Offset(monthly_page, per_page)
                    yearly_offset == Offset(yearly_page, per_page)
                IN  /\ req' = [endpoint |-> "index", time_period |-> tp,
                               category |-> cf, start_date |-> sd, end_date |-> ed,
                               monthly_page |-> mp, yearly_page |-> yp,
                               per_page |-> pp, failures |-> <<fs, fb>>]
                    /\ resp' = [status |-> IF sp.raised \/ bal.raised
                                           THEN 500 ELSE 200,
                                spending_data |-> sp.items,
                                total_spending |-> sp.total,
                                time_period |-> time_period,
                                monthly_balances |->
                                    Slice(bal.monthly, monthly_offset, per_page),
                                yearly_balances |->
                                    Slice(bal.yearly, yearly_offset, per_page),
                                monthly_count |-> Len(bal.monthly),
                                yearly_count |-> Len(bal.yearly),
                                monthly_total_pages |->
                                    TotalPages(Len(bal.monthly), per_page),
                                yearly_total_pages |->
                                    TotalPages(Len(bal.yearly), per_page),
                                monthly_page |-> monthly_page,
                                yearly_page |-> yearly_page,
                                per_page |-> per_page,
                                monthly_offset |-> monthly_offset,
                                yearly_offset |-> yearly_offset,
                                errors |-> <<sp.error, bal.error>>,
                                opened |-> sp.opened + bal.opened,
                                closed |-> sp.closed + bal.closed]
                    /\ openConns' = afterSpending + bal.opened - bal.closed
    /\ UNCHANGED <<processed, unprocessed, today>>

\* @app.route('/admin')
admin(Pages, PerPages, AdminFailures) ==
    /\ Idle
    /\ \E p \in Pages, pp \in PerPages, fail \in AdminFailures :
          LET page == NormalizePage(ArgInt(p, DefaultPage))
              per_page == NormalizePerPage(ArgInt(pp, DefaultPerPage))
              offset == Offset(page, per_page)
              total_count == CountBag(unprocessed)
          IN  /\ req' = [endpoint |-> "admin", page |-> p, per_page |-> pp,
                         failures |-> <<fail>>]
              /\ IF ConnectFails(fail, openConns)
                 THEN /\ resp' = [status |-> 500, opened |-> 0, closed |-> 0]
                      /\ openConns' = openConns
                 ELSE IF fail = "query"
                 THEN /\ resp' = [status |-> 500, opened |-> 1, closed |-> 0]
                      /\ openConns' = openConns + 1
                 ELSE /\ resp' = [status |-> 200, page |-> page, per_page |-> per_page,
                                  offset |-> offset, total_count |-> total_count,
                                  total_pages |-> TotalPages(total_count, per_page),
                                  opened |-> 1, closed |-> 1]
                      /\ openConns' = openConns
    /\ UNCHANGED <<processed, unprocessed, today>>

\* @app.route('/record_transformer')
record_transformer(Pages, PerPages, Categories, Searches, SortFields, SortDirections, TransformerFailures) ==
    /\ Idle
    /\ \E p \in Pages, pp \in PerPages, cf \in Categories, sr \in Searches,
          sb \in SortFields, so \in SortDirections, fail \in TransformerFailures :
          LET page == NormalizePage(ArgInt(p, DefaultPage))
              per_page == NormalizePerPage(ArgInt(pp, DefaultPerPage))
              sort_by == ValidateSortBy(ArgStr(sb, "transaction_date"))
              sort_order == ValidateSortOrder(ArgStr(so, "desc"))
              offset == Offset(page, per_page)
              matching == Where(processed, {r \in DOMAIN processed :
                                             TransformerWhere(cf, sr, r)})
              total_count == CountBag(matching)
          IN  /\ req' = [endpoint |-> "record_transformer", page |-> p,
                         per_page |-> pp, category |-> cf, search |-> sr,
                         sort_by |-> sb, sort_order |-> so, failures |-> <<fail>>]
              /\ IF ConnectFails(fail, openConns)
                 THEN /\ resp' = [status |-> 500, opened |-> 0, closed |-> 0,
                                  queries |-> << >>]
                      /\ openConns' = openConns
                 ELSE IF fail = "query"
                 THEN /\ resp' = [status |-> 500, opened |-> 1, closed |-> 0,
                                  queries |-> <<BaseQuery(cf, sr, sort_by, sort_order)>>]
                      /\ openConns' = openConns + 1
                 ELSE /\ resp' = [status |-> 200, page |-> page, per_page |-> per_page,
                                  offset |-> offset, total_count |-> total_count,
                                  total_pages |-> TotalPages(total_count, per_page),
                                  categories |-> DistinctCategories(processed),
                                  sort_by |-> sort_by, sort_order |-> sort_order,
                                  queries |-> <<BaseQuery(cf, sr, sort_by, sort_order),
                                                CountQuery(cf, sr)>>,
                                  opened |-> 1, closed |-> 1]
                      /\ openConns' = openConns
    /\ UNCHANGED <<processed, unprocessed, today>>

\* @app.route('/update_categories', methods=['POST'])
update_categories(RecordIds, NewCategories, UpdateFailures) ==
    /\ Idle
    /\ \E ids \in RecordIds, nc \in NewCategories, fail \in UpdateFailures :
          LET record_ids == ParseRecordIds(Val(ids))
          IN  /\ req' = [endpoint |-> "update_categories", record_ids |-> ids,
                         new_category |-> nc, failures |-> <<fail>>]
              /\ IF ~TruthySeq(ids) \/ ~Truthy(nc)
                 THEN /\ resp' = [status |-> 400, opened |-> 0, closed |-> 0,
                                  body |-> "Missing record IDs or category"]
                      /\ UNCHANGED <<processed, openConns>>
                 ELSE IF record_ids = << >>
                 THEN /\ resp' = [status |-> 400, opened |-> 0, closed |-> 0,
                                  body |-> "No valid record IDs provided"]
                      /\ UNCHANGED <<processed, openConns>>
                 ELSE IF ConnectFails(fail, openConns)
                 THEN /\ resp' = [status |-> 500, opened |-> 0, closed |-> 0]
                      /\ UNCHANGED <<processed, openConns>>
                 ELSE IF fail \in {"query", "commit"}
                 THEN /\ resp' = [status |-> 500, opened |-> 1, closed |-> 0]
                      /\ openConns' = openConns + 1
                      /\ UNCHANGED processed
                 ELSE /\ resp' = [status |-> 200, opened |-> 1, closed |-> 1,
                                  body |-> "Successfully updated",
                                  count |-> Len(record_ids),
                                  ids |-> record_ids,
                                  category |-> Val(nc)]
                      /\ processed' = UpdateCategory(processed, Val(nc), record_ids)
                      /\ UNCHANGED openConns
    /\ UNCHANGED <<unprocessed, today>>

\* @app.route('/delete_records', methods=['POST'])
delete_records(RecordIds, DeleteFailures) ==
    /\ Idle
    /\ \E ids \in RecordIds, fail \in DeleteFailures :
          LET record_ids == ParseRecordIds(Val(ids))
          IN  /\ req' = [endpoint |-> "delete_records", record_ids |-> ids,
                         failures |-> <<fail>>]
              /\ IF ~TruthySeq(ids)
                 THEN /\ resp' = [status |-> 400, opened |-> 0, closed |-> 0,
                                  body |-> "Missing record IDs"]
                      /\ UNCHANGED <<processed, openConns>>
                 ELSE IF record_ids = << >>
                 THEN /\ resp' = [status |-> 400, opened |-> 0, closed |-> 0,
                                  body |-> "No valid record IDs provided"]
                      /\ UNCHANGED <<processed, openConns>>
                 ELSE IF ConnectFails(fail, openConns)
                 THEN /\ resp' = [status |-> 500, opened |-> 0, closed |-> 0]
                      /\ UNCHANGED <<processed, openConns>>
                 ELSE IF fail \in {"query", "commit"}
                 THEN /\ resp' = [status |-> 500, opened |-> 1, closed |-> 0]
                      /\ openConns' = openConns + 1
                      /\ UNCHANGED processed
                 ELSE /\ resp' = [status |-> 200, opened |-> 1, closed |-> 1,
                                  body |-> "Successfully deleted",
                                  count |-> Len(record_ids),
                                  ids |-> record_ids]
                      /\ processed' = DeleteRows(processed, record_ids)
                      /\ UNCHANGED openConns
    /\ UNCHANGED <<unprocessed, today>>

\* the response has been sent: the server waits for the next request
Deliver ==
    /\ ~Idle
    /\ req' = NoRequest
    /\ resp' = NoResponse
    /\ UNCHANGED <<processed, unprocessed, today, openConns>>

\* the runtime reclaims a connection object no handler refers to any more;
\* the driver's finalizer closes it
Finalize ==
    /\ openConns > 0
    /\ openConns' = openConns - 1
    /\ UNCHANGED <<processed, unprocessed, today, req, resp>>

----------------------------------------------------------------------------
(* The values requests and tables are drawn from *)

Jan01 == MkDate(2024, 1, 1)
Dates == {MkDate(2023, 12, 31), Jan01, MkDate(2024, 1, 7), MkDate(2024, 1, 8),
          MkDate(2024, 2, 1), MkDate(2024, 12, 30)}

IdA == <<"A">>
IdB == <<"B">>

\* raw page / per_page parameters of the full application
FewArgs == {None, Some(<<"x">>), Some(<<"0">>), Some(<<"2">>)}
ReadFailures == {"none", "connect", "query"}

\* raw record_ids parameters: every short string over the characters
\* below, and the string "A, B ,,C"
IdChars == {"A", "B", ",", " "}
ExampleIds == <<"A", ",", " ", "B", " ", ",", ",", "C">>
RawIds == {Some(s) : s \in SeqsUpTo(IdChars, MaxIdsLen) \cup {ExampleIds}}
FewIds == {None, Some(<< >>), Some(<<" ", ",">>), Some(<<"A">>),
           Some(<<"A", ",", "A">>), Some(<<"B", ",", "C">>)}

----------------------------------------------------------------------------
(* Spec: the whole application on small tables *)

Rows == {ProcessedRow(id, Jan01, <<"a">>, 0 - 50, c) :
            id \in {IdA, IdB}, c \in {None, Some("Food")}}

UnprocessedRows == {UnprocessedRow(1, IdA, Jan01, 0 - 50)}

Init ==
    /\ processed \in BagsUpTo(Rows, MaxRows)
    /\ unprocessed \in BagsUpTo(UnprocessedRows, MaxRows)
    /\ today = Jan01
    /\ openConns = 0
    /\ req = NoRequest
    /\ resp = NoResponse

\* a raw start_date / end_date parameter the store cannot read as a date
NotADate == RawDate("not a date", Jan01)

Index ==
    index({None, Some("all")}, {None, Some("Food")},
          {None, Some(NotADate)}, {None, Some(NotADate)},
          {None}, {None}, {None, Some(<<"1">>)}, ReadFailures, ReadFailures)

Admin == admin(FewArgs, FewArgs, ReadFailures)

RecordTransformer ==
    record_transformer({None, Some(<<"2">>)}, {None, Some(<<"1">>)},
                       {None, Some("Food")}, {None, Some(<<"A">>)},
                       {None, Some("amount"), Some("drop table")},
                       {None, Some("asc")}, ReadFailures)

UpdateCategories ==
    update_categories(FewIds, {None, Some(""), Some("X"), Some("Food")}, Failures)

DeleteRecords == delete_records(FewIds, Failures)

Next ==
    \/ Index
    \/ Admin
    \/ RecordTransformer
    \/ UpdateCategories
    \/ DeleteRecords
    \/ Deliver
    \/ Finalize

Spec == Init /\ [][Next]_vars

----------------------------------------------------------------------------
(* SpecPaging: the three page views on every raw page / per_page value *)

\* rows in a table of SpecPaging
MaxCount == 5

\* k rows, each in a month and a year of its own
PagingRows(k) == {ProcessedRow(IdA, MkDate(2020 + i, i, 1), <<"a">>, 0 - 50, None) :
                     i \in 1..k}

InitPaging ==
    /\ \E k \in 0..MaxCount :
          /\ processed = SetToBag(PagingRows(k))
          /\ unprocessed = [r \in {x \in UnprocessedRows : k > 0} |-> k]
    /\ today = Jan01
    /\ openConns = 0
    /\ req = NoRequest
    /\ resp = NoResponse

AllArgs == {None} \cup {Some(s) : s \in RawArgs}

TwoArgs == {None, Some(<<"2">>)}

\* one of the parameters ranges over every raw value, the others over a few
IndexPaging ==
    \/ index({None}, {None}, {None}, {None}, AllArgs, TwoArgs, FewArgs,
             {"none"}, {"none"})
    \/ index({None}, {None}, {None}, {None}, TwoArgs, AllArgs, FewArgs,
             {"none"}, {"none"})
    \/ index({None}, {None}, {None}, {None}, TwoArgs, TwoArgs, AllArgs,
             {"none"}, {"none"})

AdminPaging ==
    \/ admin(AllArgs, FewArgs, {"none"})
    \/ admin(FewArgs, AllArgs, {"none"})

RecordTransformerPaging ==
    \/ record_transformer(AllArgs, FewArgs, {None}, {None}, {None}, {None}, {"none"})
    \/ record_transformer(FewArgs, AllArgs, {None}, {None}, {None}, {None}, {"none"})

NextPaging ==
    \/ IndexPaging
    \/ AdminPaging
    \/ RecordTransformerPaging
    \/ Deliver

SpecPaging == InitPaging /\ [][NextPaging]_vars

----------------------------------------------------------------------------
(* SpecSpending: GET / on tables of every mix of categories and amounts *)

\* rows in a table of SpecSpending
MaxSpendingRows == 3

SpendingCategories == {None, Some("Uncategorized"), Some("Food"), Some("food")}
SpendingAmounts == {0 - 50, 0 - 30, 200}

SpendingRows == {ProcessedRow(IdA, Jan01, <<"a">>, a, c) :
                    a \in SpendingAmounts, c \in SpendingCategories}

InitSpending ==
    /\ processed \in BagsUpTo(SpendingRows, MaxSpendingRows)
    /\ unprocessed = EmptyBag
    /\ today = Jan01
    /\ openConns = 0
    /\ req = NoRequest
    /\ resp = NoResponse

IndexSpending ==
    index({None, Some("all")},
          {None, Some("")} \cup (SpendingCategories \ {None}) \cup {Some("Groceries")},
          {None}, {None}, {None}, {None}, {None}, {"none"}, {"none"})

NextSpending ==
    \/ IndexSpending
    \/ Deliver

SpecSpending == InitSpending /\ [][NextSpending]_vars

----------------------------------------------------------------------------
(* SpecWindow: GET / on tables of every mix of dates, on several days *)

WindowRows == {ProcessedRow(IdA, d, <<"a">>, 0 - 50, Some("Food")) : d \in Dates}

\* raw start_date / end_date parameters that the store can read as dates,
\* the missing and the empty one
RawDates == {None, Some(RawDate("", Jan01)), Some(IsoDate(Jan01)),
             Some(IsoDate(MkDate(2024, 1, 8)))}

InitWindow ==
    /\ processed \in BagsUpTo(WindowRows, MaxRows)
    /\ unprocessed = EmptyBag
    /\ today \in {Jan01, MkDate(2024, 1, 8)}
    /\ openConns = 0
    /\ req = NoRequest
    /\ resp = NoResponse

IndexWindow ==
    index({None, Some("day"), Some("week"), Some("month"), Some("year"), Some("all"),
           Some("Month"), Some("")},
          {None, Some("Food")}, RawDates, RawDates,
          {None}, {None}, {None}, {"none"}, {"none"})

NextWindow ==
    \/ IndexWindow
    \/ Deliver

SpecWindow == InitWindow /\ [][NextWindow]_vars

----------------------------------------------------------------------------
(* SpecParse: the two mutation endpoints on every raw record_ids value *)

InitParse == Init

UpdateCategoriesParse == update_categories(RawIds, {Some("X")}, {"none"})

DeleteRecordsParse == delete_records(RawIds, {"none"})

NextParse ==
    \/ UpdateCategoriesParse
    \/ DeleteRecordsParse
    \/ Deliver

SpecParse == InitParse /\ [][NextParse]_vars

----------------------------------------------------------------------------
(* SpecSort: /record_transformer on every sort_by and sort_order value *)

SortBys == {None} \cup {Some(f) : f \in Range(valid_sort_fields)}
           \cup {Some("drop table"), Some(""), Some("AMOUNT"), Some("id"),
                 Some("amount; DROP TABLE processed_records"), Some("asc")}

SortOrders == {None, Some("asc"), Some("desc"), Some("ASC"), Some(""),
               Some("desc; DROP TABLE processed_records"), Some("amount")}

InitSort == Init

RecordTransformerSort ==
    record_transformer({None}, {None}, {None, Some("Food")}, {None, Some(<<"A">>)},
                       SortBys, SortOrders, ReadFailures)

NextSort ==
    \/ RecordTransformerSort
    \/ Deliver

SpecSort == InitSort /\ [][NextSort]_vars

----------------------------------------------------------------------------
(* Properties *)

IsPageView == req.endpoint \in {"index", "admin", "record_transformer"}
IsMutation == req.endpoint \in {"update_categories", "delete_records"}

\* C1: every connection opened by get_db_connection during a request has
\* been closed when the response is returned, on the error paths too: a
\* response in hand has as many connections closed as opened, and no
\* connection is open while the server waits for the next request
ConnectionsReleased ==
    /\ ~Idle => resp.opened = resp.closed
    /\ Idle => openConns = 0

\* the rows of t whose category, NULL read as 'Uncategorized', is label
WithLabel(t, label) == Where(t, {r \in DOMAIN t : Coalesce(r.category) = label})

\* C2: the items get_spending_data returns hold at most one item per
\* category label, in descending order of amount; the item of a label sums
\* every selected record of that label, the records with a NULL category
\* and those with the literal 'Uncategorized' in the one 'Uncategorized'
\* item; total is the sum of the items
SpendingMergedByLabel ==
    (req.endpoint = "index" /\ ~Truthy(req.category)) =>
        LET items == resp.spending_data
            n == Len(items)
            labels == {Coalesce(r.category) : r \in DOMAIN processed}
        IN  /\ \A i, j \in 1..n : i # j => items[i].category # items[j].category
            /\ {items[i].category : i \in 1..n} = labels
            /\ \A i \in 1..n :
                  items[i].amount =
                      SumAmount(WithLabel(processed, items[i].category))
            /\ \A i \in 1..n - 1 : items[i].amount >= items[i + 1].amount
            /\ resp.total_spending = SumAmount(processed)

\* a raw per_page the claim calls invalid: not a number, <= 0 or > 100
InvalidPerPage(raw) ==
    /\ ~IsNone(raw)
    /\ \/ ~IsIntLiteral(Val(raw))
       \/ IntOf(Val(raw)) <= 0
       \/ IntOf(Val(raw)) > 100

PageNormalized(raw_per_page, page, per_page, offset) ==
    /\ page >= 1
    /\ per_page >= 1 /\ per_page <= 100
    /\ (InvalidPerPage(raw_per_page) \/ IsNone(raw_per_page)) => per_page = 10
    /\ offset = (page - 1) * per_page

\* C3: for every raw page and per_page of /, /admin and /record_transformer
\* the normalized page is >= 1, the normalized per_page is in 1..100 and is
\* 10 when the raw value is <= 0, > 100 or not a number, and the row offset
\* is (page - 1) * per_page
PaginationNormalized ==
    /\ (req.endpoint \in {"admin", "record_transformer"} /\ resp.status = 200) =>
          PageNormalized(req.per_page, resp.page, resp.per_page, resp.offset)
    /\ req.endpoint = "index" =>
          /\ PageNormalized(req.per_page, resp.monthly_page, resp.per_page,
                            resp.monthly_offset)
          /\ PageNormalized(req.per_page, resp.yearly_page, resp.per_page,
                            resp.yearly_offset)

\* C3 witness: /admin answered per_page = "101" and page = "-1", both out
\* of range, with per_page 10 and page 1
PaginationNormalizedWitness ==
    /\ req.endpoint = "admin"
    /\ resp.status = 200
    /\ \/ req.per_page = Some(<<"1", "0", "1">>) /\ resp.per_page = 10
       \/ req.page = Some(<<"-", "1">>) /\ resp.page = 1

\* ceil(n / d): the least k with k * d >= n
Ceiling(n, d) == CHOOSE k \in 0..n : k * d >= n /\ \A j \in 0..(k - 1) : j * d < n

\* C4: the total-page count of /, /admin and /record_transformer is
\* ceil(total_count / per_page), and 0 when total_count is 0
TotalPagesIsCeiling ==
    /\ (req.endpoint \in {"admin", "record_transformer"} /\ resp.status = 200) =>
          /\ resp.total_pages = Ceiling(resp.total_count, resp.per_page)
          /\ resp.total_count = 0 => resp.total_pages = 0
    /\ req.endpoint = "index" =>
          /\ resp.monthly_total_pages = Ceiling(resp.monthly_count, resp.per_page)
          /\ resp.yearly_total_pages = Ceiling(resp.yearly_count, resp.per_page)
          /\ resp.monthly_count = 0 => resp.monthly_total_pages = 0

\* C4 witness: 5 rows at 2 per page are 3 pages, and no row is no page
TotalPagesIsCeilingWitness ==
    /\ req.endpoint = "record_transformer"
    /\ resp.status = 200
    /\ resp.total_count = 5
    /\ resp.per_page = 2
    /\ resp.total_pages = 3

\* a start_date / end_date that was supplied: present and not empty
Supplied(raw) == ~IsNone(raw) /\ Val(raw).text # ""

\* the date window the claim gives the request rq on the day now
InClaimedWindow(rq, time_period, r, now) ==
    LET t == r.transaction_date
    IN  IF Supplied(rq.start_date) /\ Supplied(rq.end_date)
        THEN /\ Ordinal(Val(rq.start_date).date) <= Ordinal(t)
             /\ Ordinal(t) <= Ordinal(Val(rq.end_date).date)
        ELSE CASE time_period = "day" -> t = now
               [] time_period = "week" ->
                     t.y = now.y /\ ExtractWeek(t) = ExtractWeek(now)
               [] time_period = "month" -> t.y = now.y /\ t.m = now.m
               [] time_period = "year" -> t.y = now.y
               [] OTHER -> TRUE

\* C5: when start_date and end_date are both supplied the window of
\* get_spending_data is the inclusive range [start_date, end_date] whatever
\* time_period is; otherwise time_period chooses it among day, week, month
\* and year; any other time_period restricts nothing
WindowPriority ==
    req.endpoint = "index" =>
        resp.total_spending =
            SumAmount(Where(processed,
                {r \in DOMAIN processed :
                    InClaimedWindow(req, resp.time_period, r, today)}))

\* C5 witness: time_period is "day" and both dates are supplied; a record
\* of another day of the range is counted
WindowPriorityWitness ==
    /\ req.endpoint = "index"
    /\ req.time_period = Some("day")
    /\ req.start_date = Some(IsoDate(Jan01))
    /\ req.end_date = Some(IsoDate(MkDate(2024, 1, 8)))
    /\ today = Jan01
    /\ DOMAIN processed = {ProcessedRow(IdA, MkDate(2024, 1, 7), <<"a">>, 0 - 50,
                                        Some("Food"))}
    /\ resp.total_spending = 0 - 50

\* C6: with a literal category filter f get_spending_data aggregates only
\* the records whose category is exactly f: one item, labelled f, summing
\* them (no item when there is none); a record with a NULL category is in
\* no such item, not even for f = 'Uncategorized'
FilterIsExactMatch ==
    (req.endpoint = "index" /\ Truthy(req.category)) =>
        LET f == Val(req.category)
            matched == Where(processed, {r \in DOMAIN processed :
                          ~IsNone(r.category) /\ Val(r.category) = f})
        IN  resp.spending_data =
                IF matched = EmptyBag THEN << >>
                ELSE <<[category |-> f,
                        amount |-> SumAmount(matched)]>>

\* C6 witness: the filter 'Uncategorized' on a table with a NULL record and
\* a literal 'Uncategorized' record returns the literal record alone
FilterIsExactMatchWitness ==
    /\ req.endpoint = "index"
    /\ req.category = Some("Uncategorized")
    /\ DOMAIN processed = {ProcessedRow(IdA, Jan01, <<"a">>, 200, None),
                           ProcessedRow(IdA, Jan01, <<"a">>, 0 - 50,
                                        Some("Uncategorized"))}
    /\ resp.spending_data = <<[category |-> "Uncategorized", amount |-> 0 - 50]>>

\* ids is s cut at its commas, each piece without its leading and trailing
\* blanks, the blank pieces left out
IsParseOf(ids, s) ==
    LET cuts == {i \in 1..Len(s) : s[i] = ","} \cup {0, Len(s) + 1}
        pieces == {p \in cuts \X cuts :
                      p[1] < p[2] /\ \A c \in cuts : ~(p[1] < c /\ c < p[2])}
        Ink(p) == {i \in (p[1] + 1)..(p[2] - 1) : s[i] # " "}
        First(p) == CHOOSE i \in Ink(p) : \A j \in Ink(p) : i <= j
        Last(p) == CHOOSE i \in Ink(p) : \A j \in Ink(p) : j <= i
        kept == {p \in pieces : Ink(p) # {}}
        Rank(p) == 1 + Cardinality({q \in kept : q[1] < p[1]})
    IN  /\ Len(ids) = Cardinality(kept)
        /\ \A p \in kept : ids[Rank(p)] = SubSeq(s, First(p), Last(p))

\* the number of processed records a mutation's ids select
RowsSelected(t, ids) ==
    CountBag(Where(t, {r \in DOMAIN t : r.record_id_bank \in Range(ids)}))

\* C7: both mutation endpoints split record_ids at the commas, trim each
\* piece and drop the empty ones ("A, B ,,C" is [A, B, C]), and a success
\* reports the number of ids so parsed
IdsParsedAndCounted ==
    (IsMutation /\ resp.status = 200) =>
        /\ IsParseOf(resp.ids, Val(req.record_ids))
        /\ resp.count = Len(resp.ids)
        /\ req.record_ids = Some(ExampleIds) =>
              resp.ids = <<<<"A">>, <<"B">>, <<"C">>>> /\ resp.count = 3

\* C7 witness: "A, B ,,C" is reported as 3 records though the table holds
\* fewer rows with those ids
IdsParsedAndCountedWitness ==
    /\ req.endpoint = "update_categories"
    /\ resp.status = 200
    /\ req.record_ids = Some(ExampleIds)
    /\ resp.count = 3
    /\ RowsSelected(processed, resp.ids) < 3

SortAllowList ==
    {"record_id_bank", "transaction_date", "currency_date", "account",
     "description", "amount", "currency", "category"}

\* the text the code itself puts in its queries
FixedQueryText ==
    {"SELECT record_id_bank, transaction_date, currency_date, account, description, amount, currency, category FROM processed_records",
     "SELECT COUNT(*) FROM processed_records",
     "WHERE", "AND", "category = %s", "description ILIKE %s", "ORDER BY",
     "LIMIT %s OFFSET %s"}

\* C8: whatever sort_by and sort_order are, the sort column in the query
\* text is one of the 8 allow-listed fields and the direction is asc or
\* desc; an unrecognized sort_by falls back to transaction_date and an
\* unrecognized sort_order to desc; nothing outside the allow-list reaches
\* the query text
SortIsAllowListed ==
    req.endpoint = "record_transformer" =>
        /\ \A k \in 1..Len(resp.queries) :
              LET q == resp.queries[k]
              IN  /\ \A i \in 1..Len(q) :
                        q[i] \in FixedQueryText \cup SortAllowList \cup {"asc", "desc"}
                  /\ \A i \in 1..Len(q) :
                        q[i] = "ORDER BY" =>
                            /\ q[i + 1] \in SortAllowList
                            /\ q[i + 2] \in {"asc", "desc"}
        /\ resp.status = 200 =>
              /\ resp.sort_by =
                    IF ~IsNone(req.sort_by) /\ Val(req.sort_by) \in SortAllowList
                    THEN Val(req.sort_by) ELSE "transaction_date"
              /\ resp.sort_order =
                    IF ~IsNone(req.sort_order) /\ Val(req.sort_order) \in {"asc", "desc"}
                    THEN Val(req.sort_order) ELSE "desc"

\* C8 witness: sort_by = "drop table" is answered with a query sorted by
\* transaction_date
SortIsAllowListedWitness ==
    /\ req.endpoint = "record_transformer"
    /\ req.sort_by = Some("drop table")
    /\ req.sort_order = Some("ASC")
    /\ resp.status = 200
    /\ resp.sort_by = "transaction_date"
    /\ resp.sort_order = "desc"
    /\ Len(resp.queries) = 2

\* a raw record_ids that is missing, or empty once parsed: nothing in it
\* but commas and blanks
NoIds(raw) == IsNone(raw) \/ \A i \in 1..Len(Val(raw)) : Val(raw)[i] \in {",", " "}

\* a request the claim rejects
MissingInput(rq) ==
    \/ rq.endpoint = "update_categories"
          /\ (NoIds(rq.record_ids) \/ IsNone(rq.new_category) \/ Val(rq.new_category) = "")
    \/ rq.endpoint = "delete_records" /\ NoIds(rq.record_ids)

\* C9: a bulk recategorize whose record ids or new category are missing or
\* empty after parsing, and a bulk delete whose record ids are, is answered
\* 400, opens no connection and leaves the processed records unchanged
MissingInputRejected ==
    [][(Idle /\ MissingInput(req')) =>
          /\ resp'.status = 400
          /\ resp'.opened = 0
          /\ openConns' = openConns
          /\ processed' = processed]_vars

\* C9 witness: record_ids = " ," with a new category is answered 400
MissingInputRejectedWitness ==
    /\ req.endpoint = "update_categories"
    /\ req.record_ids = Some(<<" ", ",">>)
    /\ req.new_category = Some("X")
    /\ resp.status = 400
    /\ resp.opened = 0

\* C10: a data-access error in get_spending_data or in
\* get_monthly_yearly_balances never leaves the function: the first
\* returns an empty list and total 0, the second two empty lists, and
\* GET / renders its page
ReportErrorsSwallowed ==
    req.endpoint = "index" =>
        /\ resp.status = 200
        /\ (req.failures[1] # "none" \/ resp.errors[1]) =>
              resp.spending_data = << >> /\ resp.total_spending = 0
        /\ (req.failures[2] # "none" \/ resp.errors[2]) =>
              /\ resp.monthly_count = 0 /\ resp.yearly_count = 0
              /\ resp.monthly_balances = << >> /\ resp.yearly_balances = << >>

\* C10 witness: the spending query raises and the balances cannot connect,
\* on a table with rows, and the page is rendered empty
ReportErrorsSwallowedWitness ==
    /\ req.endpoint = "index"
    /\ req.failures = <<"query", "connect">>
    /\ processed # EmptyBag
    /\ resp.status = 200
    /\ resp.spending_data = << >>
    /\ resp.monthly_balances = << >>

\* rows r and t agree on every field but the category
SameButCategory(r, t) == [r EXCEPT !.category = t.category] = t

\* table new is table old with the category of exactly the rows whose bank
\* record id is in ids set to new_category, nothing else changed
Recategorized(old, new, ids, new_category) ==
    \A t \in (DOMAIN old) \cup (DOMAIN new) :
        CopiesIn(t, new) =
            IF t.record_id_bank \notin ids THEN CopiesIn(t, old)
            ELSE IF t.category # Some(new_category) THEN 0
            ELSE CountBag(Where(old, {r \in DOMAIN old : SameButCategory(r, t)}))

\* table new is table old without exactly the rows whose bank record id is
\* in ids
Deleted(old, new, ids) ==
    \A t \in (DOMAIN old) \cup (DOMAIN new) :
        CopiesIn(t, new) = IF t.record_id_bank \in ids THEN 0 ELSE CopiesIn(t, old)

\* C11: no request changes the unprocessed records or creates a processed
\* record; a successful bulk recategorize sets the category of exactly the
\* processed records whose bank record id was submitted, leaving their
\* other fields and every other record alone; a successful bulk delete
\* removes exactly the processed records whose bank record id was
\* submitted; every other step leaves the processed records unchanged
OnlyMutationsChangeRecords ==
    [][/\ unprocessed' = unprocessed
       /\ CountBag(processed') <= CountBag(processed)
       /\ IF Idle /\ req'.endpoint = "update_categories" /\ resp'.status = 200
          THEN Recategorized(processed, processed', Range(resp'.ids), resp'.category)
          ELSE IF Idle /\ req'.endpoint = "delete_records" /\ resp'.status = 200
          THEN Deleted(processed, processed', Range(resp'.ids))
          ELSE processed' = processed]_vars

\* C11 witness: record A was recategorized to X, over its old category, and
\* record B kept its category Food
OnlyMutationsChangeRecordsWitness ==
    /\ req.endpoint = "update_categories"
    /\ req.record_ids = Some(<<"A">>)
    /\ resp.status = 200
    /\ resp.category = "X"
    /\ DOMAIN processed = {ProcessedRow(IdA, Jan01, <<"a">>, 0 - 50, Some("X")),
                           ProcessedRow(IdB, Jan01, <<"a">>, 0 - 50, Some("Food"))}

====
